---- MODULE Spec2Model ----
(***************************************************************************)
(* Model of prep/vectorize.py: the corpus pass that encodes WKT geometry   *)
(* pairs into fixed-length sequences of flagged feature vectors, and of    *)
(* the GeoVectorizer operations it calls (max_points, vectorize_wkt,       *)
(* vectorize_two_wkts).                                                    *)
(*                                                                         *)
(* A WKT string is modelled by what parsing makes of it: either it does    *)
(* not parse (valid = FALSE) or it yields an ordered list of parts (rings, *)
(* members of a multi-geometry), each an ordered list of coordinate pairs. *)
(* A feature vector is a record with the two coordinate channels x, y and  *)
(* the three flag channels RENDER, STOP, FULL_STOP.                        *)
(*                                                                         *)
(* Sequences are 1-based here: the vector at (0-based) index i of the      *)
(* program is element i + 1 of the modelled sequence.                      *)
(***************************************************************************)
EXTENDS Integers, Sequences, FiniteSets, TLC

\* ------------------------------------------------------------------ bounds
\* Largest number of records in the dataset.
MaxRecords == 2
\* Largest number of coordinates of a geometry handed to the vectorizer
\* in the specification of the pure operations.
MaxPoints == 3

\* -------------------------------------------------------------- variables
VARIABLES
    \* prep/vectorize.py
    truncated_data,        \* the records of the dataset, in order
    pc,                    \* position of the script
    error,                 \* the uncaught exception that ended the run
    brt_centroid, osm_centroid, brt_centroid_rd, osm_centroid_rd,
    max_points,
    training_vectors, intersection_vectors,
    broken_records,
    record_index,          \* 1-based: the program's record_index + 1
    centroids, centroids_rd,
    centroid_distance, geom_distance,
    archive,
    \* one call of a GeoVectorizer operation
    wkt_a, wkt_b, sequence_length, vpc, result

pipeVars == <<truncated_data, pc, error, brt_centroid, osm_centroid,
              brt_centroid_rd, osm_centroid_rd, max_points, training_vectors,
              intersection_vectors, broken_records, record_index, centroids,
              centroids_rd, centroid_distance, geom_distance, archive>>
callVars == <<wkt_a, wkt_b, sequence_length, vpc, result>>
vars == <<pipeVars, callVars>>

\* ----------------------------------------------------------- feature vectors
\* A row of np.zeros((.., .., GEO_VECTOR_LEN)).
ZeroVector == [x |-> 0, y |-> 0, RENDER |-> 0, STOP |-> 0, FULL_STOP |-> 0]

\* A zero vector whose FULL_STOP channel is set.
FullStopVector == [ZeroVector EXCEPT !.FULL_STOP = 1]

\* ------------------------------------------------------------ GeoVectorizer
\* The unparseable WKT string.
InvalidWkt == [valid |-> FALSE, parts |-> <<>>]

\* Number of coordinates of a list of parts.
RECURSIVE CountPoints(_)
CountPoints(parts) ==
    IF parts = <<>> THEN 0 ELSE Len(Head(parts)) + CountPoints(Tail(parts))

\* Point count of one WKT string; a malformed string contributes 0.
num_points_from_wkt(wkt) == IF wkt.valid THEN CountPoints(wkt.parts) ELSE 0

\* max_points: scan of the records, keeping the largest combined count.
RECURSIVE ScanMaxPoints(_, _, _, _)
ScanMaxPoints(series_a, series_b, i, best) ==
    IF i > Len(series_a) THEN best
    ELSE LET n == num_points_from_wkt(series_a[i]) + num_points_from_wkt(series_b[i])
         IN  ScanMaxPoints(series_a, series_b, i + 1, IF n > best THEN n ELSE best)

GeoVectorizer_max_points(series_a, series_b) == ScanMaxPoints(series_a, series_b, 1, 0)

\* One vector per coordinate of a part: RENDER on every coordinate, STOP on
\* the last coordinate of the part.
PartVectors(part) ==
    [i \in 1..Len(part) |->
        [x |-> part[i][1], y |-> part[i][2], RENDER |-> 1,
         STOP |-> IF i = Len(part) THEN 1 ELSE 0, FULL_STOP |-> 0]]

\* The parts flattened in their textual order.
RECURSIVE PointVectors(_)
PointVectors(parts) ==
    IF parts = <<>> THEN <<>>
    ELSE PartVectors(Head(parts)) \o PointVectors(Tail(parts))

\* FULL_STOP on the very last coordinate.
MarkFullStop(vs) ==
    IF vs = <<>> THEN vs ELSE [vs EXCEPT ![Len(vs)].FULL_STOP = 1]

\* STOP (not FULL_STOP) on the boundary point that ends the first geometry.
MarkBoundary(vs) ==
    IF vs = <<>> THEN vs
    ELSE [vs EXCEPT ![Len(vs)].STOP = 1, ![Len(vs)].FULL_STOP = 0]

\* PadSequence without the end marker: every padding vector is all zero.
PadSequenceUnflagged(vs, L) ==
    IF Len(vs) < L
    THEN vs \o [i \in 1..(L - Len(vs)) |-> ZeroVector]
    ELSE vs

\* Zero vectors up to sequence_length, the first of them flagged FULL_STOP.
PadSequence(vs, L) ==
    IF Len(vs) < L
    THEN vs \o [i \in 1..(L - Len(vs)) |-> IF i = 1 THEN FullStopVector ELSE ZeroVector]
    ELSE vs

\* vectorize_wkt of a string that parses.
vectorize_wkt(wkt, L) == PadSequence(MarkFullStop(PointVectors(wkt.parts)), L)

\* vectorize_two_wkts that keeps the FULL_STOP of the first geometry.
vectorize_two_wkts_keeping_full_stop(a, b, L) ==
    PadSequence(MarkFullStop(PointVectors(a.parts)) \o MarkFullStop(PointVectors(b.parts)), L)

\* vectorize_two_wkts of two strings that parse.
vectorize_two_wkts(a, b, L) ==
    PadSequence(MarkBoundary(PointVectors(a.parts)) \o MarkFullStop(PointVectors(b.parts)), L)

\* ------------------------------------------------------------------ inputs
\* Coordinate pairs of the generated geometries.
Coords == {<<0, 0>>, <<1, 2>>}

\* Every way to cut a list of coordinates into non-empty parts.
RECURSIVE Splits(_)
Splits(s) ==
    IF s = <<>> THEN {<<>>}
    ELSE UNION {{<<SubSeq(s, 1, k)>> \o rest : rest \in Splits(SubSeq(s, k + 1, Len(s)))}
                : k \in 1..Len(s)}

\* The WKT strings handed to one call: every geometry of 1..MaxPoints
\* coordinates in every part structure, and the unparseable string.
Geometries ==
    {[valid |-> TRUE, parts |-> p] :
        p \in UNION {Splits(s) : s \in UNION {[1..n -> Coords] : n \in 1..MaxPoints}}}
WktStrings == Geometries \cup {InvalidWkt}

\* Geometry columns of the dataset rows.
PointWkt == [valid |-> TRUE, parts |-> << << <<1, 2>> >> >>]
MultiPointWkt == [valid |-> TRUE, parts |-> << << <<1, 2>> >>, << <<0, 0>> >> >>]
LineWkt == [valid |-> TRUE, parts |-> << << <<0, 0>>, <<1, 2>>, <<1, 2>> >> >>]
RdPointWkt == [valid |-> TRUE, parts |-> << << <<3, 4>> >> >>]

\* Rows of the CSV: columns 0..8 of vectorize.py.
Records ==
    [brt_wkt : {InvalidWkt, PointWkt, MultiPointWkt},
     osm_wkt : {InvalidWkt, PointWkt},
     intersection_wkt : {InvalidWkt, PointWkt, LineWkt},
     centroid_distance : {7},
     geom_distance : {0},
     brt_centroid : {PointWkt},
     osm_centroid : {PointWkt, InvalidWkt},
     brt_centroid_rd : {RdPointWkt},
     osm_centroid_rd : {RdPointWkt}]

\* Value of a name that has not been assigned yet.
Unset == <<>>
NoArchive == [written |-> FALSE]

N == Len(truncated_data)
Column(name) == [r \in 1..N |-> truncated_data[r][name]]
brt_wkt == Column("brt_wkt")
osm_wkt == Column("osm_wkt")
intersection_set == Column("intersection_wkt")

callIdle ==
    /\ wkt_a = InvalidWkt /\ wkt_b = InvalidWkt
    /\ sequence_length = 0 /\ vpc = "idle" /\ result = <<>>

pipeIdle ==
    /\ truncated_data = <<>> /\ pc = "idle" /\ error = "none"
    /\ brt_centroid = Unset /\ osm_centroid = Unset
    /\ brt_centroid_rd = Unset /\ osm_centroid_rd = Unset
    /\ max_points = 0
    /\ training_vectors = Unset /\ intersection_vectors = Unset
    /\ broken_records = <<>> /\ record_index = 0
    /\ centroids = Unset /\ centroids_rd = Unset
    /\ centroid_distance = Unset /\ geom_distance = Unset
    /\ archive = NoArchive

\* ------------------------------------------------------ prep/vectorize.py
\* State after the columns have been read (lines 10-22).
Init ==
    /\ truncated_data \in UNION {[1..n -> Records] : n \in 1..MaxRecords}
    /\ pc = "centroids" /\ error = "none"
    /\ brt_centroid = Unset /\ osm_centroid = Unset
    /\ brt_centroid_rd = Unset /\ osm_centroid_rd = Unset
    /\ max_points = 0
    /\ training_vectors = Unset /\ intersection_vectors = Unset
    /\ broken_records = <<>> /\ record_index = 0
    /\ centroids = Unset /\ centroids_rd = Unset
    /\ centroid_distance = Unset /\ geom_distance = Unset
    /\ archive = NoArchive
    /\ callIdle

CentroidColumns == {"brt_centroid", "osm_centroid", "brt_centroid_rd", "osm_centroid_rd"}
CentroidsParse == \A r \in 1..N : \A c \in CentroidColumns : truncated_data[r][c].valid

\* Lines 23-26: the four centroid columns, each point encoded with length 1.
VectorizeCentroids ==
    /\ pc = "centroids" /\ CentroidsParse
    /\ brt_centroid' = [r \in 1..N |-> vectorize_wkt(truncated_data[r].brt_centroid, 1)]
    /\ osm_centroid' = [r \in 1..N |-> vectorize_wkt(truncated_data[r].osm_centroid, 1)]
    /\ brt_centroid_rd' = [r \in 1..N |-> vectorize_wkt(truncated_data[r].brt_centroid_rd, 1)]
    /\ osm_centroid_rd' = [r \in 1..N |-> vectorize_wkt(truncated_data[r].osm_centroid_rd, 1)]
    /\ pc' = "max_points"
    /\ UNCHANGED <<truncated_data, error, max_points, training_vectors,
                   intersection_vectors, broken_records, record_index, centroids,
                   centroids_rd, centroid_distance, geom_distance, archive, callVars>>

\* Lines 23-26 when a centroid column does not parse: the list comprehension
\* is not inside a try block, the exception ends the run.
VectorizeCentroidsRaises ==
    /\ pc = "centroids" /\ ~CentroidsParse
    /\ pc' = "crashed" /\ error' = "ParseError in centroid column"
    /\ UNCHANGED <<truncated_data, brt_centroid, osm_centroid, brt_centroid_rd,
                   osm_centroid_rd, max_points, training_vectors,
                   intersection_vectors, broken_records, record_index, centroids,
                   centroids_rd, centroid_distance, geom_distance, archive, callVars>>

\* Line 32.
ComputeMaxPoints ==
    /\ pc = "max_points"
    /\ max_points' = GeoVectorizer_max_points(brt_wkt, osm_wkt)
    /\ pc' = "alloc"
    /\ UNCHANGED <<truncated_data, error, brt_centroid, osm_centroid, brt_centroid_rd,
                   osm_centroid_rd, training_vectors, intersection_vectors,
                   broken_records, record_index, centroids, centroids_rd,
                   centroid_distance, geom_distance, archive, callVars>>

\* np.zeros((rows, length, GEO_VECTOR_LEN)).
Zeros(rows, length) == [r \in 1..rows |-> [p \in 1..length |-> ZeroVector]]

\* Allocate with the intersection array sized by the intersection column.
AllocateOwnLength ==
    /\ pc = "alloc"
    /\ training_vectors' = Zeros(N, max_points)
    /\ intersection_vectors' =
          Zeros(Len(intersection_set),
                GeoVectorizer_max_points(intersection_set, [r \in 1..N |-> InvalidWkt]))
    /\ broken_records' = <<>>
    /\ record_index' = 1
    /\ pc' = "loop"
    /\ UNCHANGED <<truncated_data, error, brt_centroid, osm_centroid, brt_centroid_rd,
                   osm_centroid_rd, max_points, centroids, centroids_rd,
                   centroid_distance, geom_distance, archive, callVars>>

\* Lines 33-36: both output arrays get max_points as their second dimension.
Allocate ==
    /\ pc = "alloc"
    /\ training_vectors' = Zeros(N, max_points)
    /\ intersection_vectors' = Zeros(Len(intersection_set), max_points)
    /\ broken_records' = <<>>
    /\ record_index' = 1
    /\ pc' = "loop"
    /\ UNCHANGED <<truncated_data, error, brt_centroid, osm_centroid, brt_centroid_rd,
                   osm_centroid_rd, max_points, centroids, centroids_rd,
                   centroid_distance, geom_distance, archive, callVars>>

\* The three geometry columns of record r parse.
Parses(r) ==
    /\ brt_wkt[r].valid /\ osm_wkt[r].valid /\ intersection_set[r].valid

\* Lines 39-40, for a record that parses.
training_vector(r) == vectorize_two_wkts(brt_wkt[r], osm_wkt[r], max_points)
target_vector(r) == vectorize_wkt(intersection_set[r], max_points)

\* Lines 48-50 and 52-54: the points of vector are written into row r in
\* order; writing stops at the first point index outside the row.
CopyPoints(array, r, vector) ==
    [array EXCEPT ![r] = [p \in 1..Len(@) |-> IF p <= Len(vector) THEN vector[p] ELSE @[p]]]

\* Lines 43 and 44: array[record_index, 0, FULL_STOP_INDEX] = 1.
SetFullStop(array, r) == [array EXCEPT ![r][1].FULL_STOP = 1]

\* Lines 37-40 and 48-54: both encodings succeed and fit their rows.
RecordEncoded ==
    /\ pc = "loop" /\ record_index <= N
    /\ Parses(record_index)
    /\ Len(training_vector(record_index)) <= max_points
    /\ Len(target_vector(record_index)) <= max_points
    /\ training_vectors' = CopyPoints(training_vectors, record_index, training_vector(record_index))
    /\ intersection_vectors' = CopyPoints(intersection_vectors, record_index, target_vector(record_index))
    /\ record_index' = record_index + 1
    /\ UNCHANGED <<truncated_data, pc, error, brt_centroid, osm_centroid, brt_centroid_rd,
                   osm_centroid_rd, max_points, broken_records, centroids, centroids_rd,
                   centroid_distance, geom_distance, archive, callVars>>

\* Lines 48-54 when an encoded sequence is longer than max_points: the copy
\* loops are outside the try block, the IndexError ends the run.  The pair
\* is copied first; the intersection is reached only if the pair fitted.
RecordCopyIndexError ==
    /\ pc = "loop" /\ record_index <= N
    /\ Parses(record_index)
    /\ \/ Len(training_vector(record_index)) > max_points
       \/ Len(target_vector(record_index)) > max_points
    /\ training_vectors' = CopyPoints(training_vectors, record_index, training_vector(record_index))
    /\ intersection_vectors' =
          IF Len(training_vector(record_index)) > max_points
          THEN intersection_vectors
          ELSE CopyPoints(intersection_vectors, record_index, target_vector(record_index))
    /\ pc' = "crashed" /\ error' = "IndexError in copy loop"
    /\ UNCHANGED <<truncated_data, brt_centroid, osm_centroid, brt_centroid_rd,
                   osm_centroid_rd, max_points, broken_records, record_index, centroids,
                   centroids_rd, centroid_distance, geom_distance, archive, callVars>>

\* Lines 41-46: an encoding raised; the rows get the placeholder, the index
\* is recorded and the loop continues.
RecordBroken ==
    /\ pc = "loop" /\ record_index <= N
    /\ ~Parses(record_index)
    /\ max_points >= 1
    /\ training_vectors' = SetFullStop(training_vectors, record_index)
    /\ intersection_vectors' = SetFullStop(intersection_vectors, record_index)
    /\ broken_records' = Append(broken_records, record_index)
    /\ record_index' = record_index + 1
    /\ UNCHANGED <<truncated_data, pc, error, brt_centroid, osm_centroid, brt_centroid_rd,
                   osm_centroid_rd, max_points, centroids, centroids_rd,
                   centroid_distance, geom_distance, archive, callVars>>

\* Line 43 when max_points is 0: the rows have no position 0, the assignment
\* in the except block raises IndexError and the run ends.
RecordBrokenIndexError ==
    /\ pc = "loop" /\ record_index <= N
    /\ ~Parses(record_index)
    /\ max_points = 0
    /\ pc' = "crashed" /\ error' = "IndexError in except block"
    /\ UNCHANGED <<truncated_data, brt_centroid, osm_centroid, brt_centroid_rd,
                   osm_centroid_rd, max_points, training_vectors, intersection_vectors,
                   broken_records, record_index, centroids, centroids_rd,
                   centroid_distance, geom_distance, archive, callVars>>

\* np.append(a, b, axis=1): a new array, row r is a[r] followed by b[r].
AppendAxis1(a, b) == [r \in 1..Len(a) |-> a[r] \o b[r]]

\* FixFirstCentroid that sets STOP but leaves FULL_STOP on the first centroid.
FixFirstCentroidStopOnly(c) ==
    [r \in 1..Len(c) |-> [c[r] EXCEPT ![1].STOP = 1]]

\* Lines 59-60 and 64-65: c[:, 0, FULL_STOP_INDEX] = 0; c[:, 0, STOP_INDEX] = 1.
FixFirstCentroid(c) ==
    [r \in 1..Len(c) |-> [c[r] EXCEPT ![1].FULL_STOP = 0, ![1].STOP = 1]]

\* Lines 57-60, after the last record.
ConcatCentroids ==
    /\ pc = "loop" /\ record_index > N
    /\ centroids' = FixFirstCentroid(AppendAxis1(brt_centroid, osm_centroid))
    /\ pc' = "centroids_rd"
    /\ UNCHANGED <<truncated_data, error, brt_centroid, osm_centroid, brt_centroid_rd,
                   osm_centroid_rd, max_points, training_vectors, intersection_vectors,
                   broken_records, record_index, centroids_rd, centroid_distance,
                   geom_distance, archive, callVars>>

\* Lines 62-65.
ConcatCentroidsRd ==
    /\ pc = "centroids_rd"
    /\ centroids_rd' = FixFirstCentroid(AppendAxis1(brt_centroid_rd, osm_centroid_rd))
    /\ pc' = "distances"
    /\ UNCHANGED <<truncated_data, error, brt_centroid, osm_centroid, brt_centroid_rd,
                   osm_centroid_rd, max_points, training_vectors, intersection_vectors,
                   broken_records, record_index, centroids, centroid_distance,
                   geom_distance, archive, callVars>>

\* np.reshape(d, (len(d), 1, 1)) then np.insert(d, 1, 0, axis=2).
WithReservedSlot(d) == [r \in 1..Len(d) |-> << <<d[r], 0>> >>]

\* Lines 68-71.
ReshapeDistances ==
    /\ pc = "distances"
    /\ centroid_distance' = WithReservedSlot(Column("centroid_distance"))
    /\ geom_distance' = WithReservedSlot(Column("geom_distance"))
    /\ pc' = "save"
    /\ UNCHANGED <<truncated_data, error, brt_centroid, osm_centroid, brt_centroid_rd,
                   osm_centroid_rd, max_points, training_vectors, intersection_vectors,
                   broken_records, record_index, centroids, centroids_rd, archive,
                   callVars>>

\* Lines 75-85: the eight named arrays of the archive.
SavedArrays ==
    [written |-> TRUE,
     input_geoms |-> training_vectors,
     intersection |-> intersection_vectors,
     centroid_distance |-> centroid_distance,
     geom_distance |-> geom_distance,
     brt_centroid |-> brt_centroid,
     osm_centroid |-> osm_centroid,
     centroids |-> centroids,
     centroids_rd |-> centroids_rd]

\* Save placed inside the record loop: the archive is written while records
\* are still being processed.
SaveInsideLoop ==
    /\ \/ pc = "save"
       \/ pc = "loop" /\ record_index <= N
    /\ archive' = SavedArrays
    /\ pc' = "done"
    /\ UNCHANGED <<truncated_data, error, brt_centroid, osm_centroid, brt_centroid_rd,
                   osm_centroid_rd, max_points, training_vectors, intersection_vectors,
                   broken_records, record_index, centroids, centroids_rd,
                   centroid_distance, geom_distance, callVars>>

\* Lines 73-86.
Save ==
    /\ pc = "save"
    /\ archive' = SavedArrays
    /\ pc' = "done"
    /\ UNCHANGED <<truncated_data, error, brt_centroid, osm_centroid, brt_centroid_rd,
                   osm_centroid_rd, max_points, training_vectors, intersection_vectors,
                   broken_records, record_index, centroids, centroids_rd,
                   centroid_distance, geom_distance, callVars>>

Next ==
    \/ VectorizeCentroids \/ VectorizeCentroidsRaises
    \/ ComputeMaxPoints \/ Allocate
    \/ RecordEncoded \/ RecordCopyIndexError \/ RecordBroken \/ RecordBrokenIndexError
    \/ ConcatCentroids \/ ConcatCentroidsRd \/ ReshapeDistances \/ Save

Spec == Init /\ [][Next]_vars

\* ------------------------------------------- one call of the vectorizer
\* A call with arguments drawn from the generated WKT strings and every
\* sequence length up to one more than two full geometries need.
InitCall ==
    /\ wkt_a \in WktStrings /\ wkt_b \in WktStrings
    /\ sequence_length \in 0..(2 * MaxPoints + 1)
    /\ vpc = "start" /\ result = <<>>
    /\ pipeIdle

\* GeoVectorizer.vectorize_wkt(wkt_a, sequence_length) returns.
CallVectorizeWkt ==
    /\ vpc = "start" /\ wkt_a.valid
    /\ result' = vectorize_wkt(wkt_a, sequence_length)
    /\ vpc' = "vectorize_wkt"
    /\ UNCHANGED <<wkt_a, wkt_b, sequence_length, pipeVars>>

\* GeoVectorizer.vectorize_wkt(wkt_a, sequence_length) raises.
CallVectorizeWktRaises ==
    /\ vpc = "start" /\ ~wkt_a.valid
    /\ vpc' = "vectorize_wkt raised"
    /\ UNCHANGED <<wkt_a, wkt_b, sequence_length, result, pipeVars>>

\* GeoVectorizer.vectorize_two_wkts(wkt_a, wkt_b, sequence_length) returns.
CallVectorizeTwoWkts ==
    /\ vpc = "start" /\ wkt_a.valid /\ wkt_b.valid
    /\ result' = vectorize_two_wkts(wkt_a, wkt_b, sequence_length)
    /\ vpc' = "vectorize_two_wkts"
    /\ UNCHANGED <<wkt_a, wkt_b, sequence_length, pipeVars>>

\* GeoVectorizer.vectorize_two_wkts(wkt_a, wkt_b, sequence_length) raises.
CallVectorizeTwoWktsRaises ==
    /\ vpc = "start" /\ ~(wkt_a.valid /\ wkt_b.valid)
    /\ vpc' = "vectorize_two_wkts raised"
    /\ UNCHANGED <<wkt_a, wkt_b, sequence_length, result, pipeVars>>

NextCall ==
    \/ CallVectorizeWkt \/ CallVectorizeWktRaises
    \/ CallVectorizeTwoWkts \/ CallVectorizeTwoWktsRaises

SpecCall == InitCall /\ [][NextCall]_vars

\* ================================================================ claims
\* Number of vectors of a sequence whose FULL_STOP channel is set.
FullStopCount(vs) == Cardinality({i \in DOMAIN vs : vs[i].FULL_STOP = 1})

nA == num_points_from_wkt(wkt_a)
nB == num_points_from_wkt(wkt_b)

\* C1: for a valid geometry and sequence_length >= its point count,
\* vectorize_wkt returns exactly sequence_length vectors, exactly one of
\* which has FULL_STOP = 1.
C1_ExactlyOneFullStop ==
    (vpc = "vectorize_wkt" /\ sequence_length >= nA)
        => /\ Len(result) = sequence_length
           /\ FullStopCount(result) = 1

\* C2: for a valid geometry of n points and sequence_length L >= n: if n < L
\* the vector at index n (the first padding vector) has FULL_STOP = 1 and
\* zero coordinates and every later vector is all zero; if n = L there is no
\* padding vector and the vector at index L - 1, the last real point, has
\* FULL_STOP = 1.
C2_EndMarkerPlacement ==
    (vpc = "vectorize_wkt" /\ sequence_length >= nA)
        => /\ nA < sequence_length =>
                /\ result[nA + 1].FULL_STOP = 1
                /\ result[nA + 1].x = 0 /\ result[nA + 1].y = 0
                /\ \A i \in (nA + 2)..Len(result) : result[i] = ZeroVector
           /\ nA = sequence_length =>
                /\ Len(result) = nA
                /\ \A i \in 1..Len(result) : result[i].RENDER = 1
                /\ result[sequence_length].FULL_STOP = 1

\* C2 witness: a call that returned a geometry followed by at least two
\* padding vectors.
C2_Witness ==
    /\ vpc = "vectorize_wkt" /\ nA + 2 <= sequence_length
    /\ Len(result) = sequence_length

\* C3 as stated: for valid A, B and sequence_length >= n(A) + n(B), the point
\* immediately following the last point of A has STOP = 1, and among the
\* points of A and B only the last point of B has FULL_STOP = 1.
C3_StopAfterLastPointOfA ==
    (vpc = "vectorize_two_wkts" /\ sequence_length >= nA + nB)
        => /\ result[nA + 1].STOP = 1
           /\ \A i \in 1..(nA + nB) : (result[i].FULL_STOP = 1) <=> (i = nA + nB)

\* C3 amended: for valid A, B and sequence_length >= n(A) + n(B), the last
\* point of A (the boundary point) has STOP = 1 and FULL_STOP = 0, and among
\* the points of A and B only the last point of B has FULL_STOP = 1.
C3_StopOnLastPointOfA ==
    (vpc = "vectorize_two_wkts" /\ sequence_length >= nA + nB)
        => /\ result[nA].STOP = 1 /\ result[nA].FULL_STOP = 0
           /\ \A i \in 1..(nA + nB) : (result[i].FULL_STOP = 1) <=> (i = nA + nB)

\* C3 witness: a pair was encoded whose second geometry starts with a part
\* of more than one coordinate, so the point after the boundary has no STOP.
C3_Witness ==
    /\ vpc = "vectorize_two_wkts" /\ sequence_length >= nA + nB
    /\ Len(Head(wkt_b.parts)) > 1
    /\ result[nA + 1].STOP = 0

\* Combined point count of record r, a malformed string counting 0.
CombinedPoints(r) == num_points_from_wkt(brt_wkt[r]) + num_points_from_wkt(osm_wkt[r])

\* Line 32 has been executed.
MaxPointsComputed ==
    \/ pc \in {"alloc", "loop", "centroids_rd", "distances", "save", "done"}
    \/ pc = "crashed" /\ error # "ParseError in centroid column"

\* C4: max_points equals the maximum over the records of the combined point
\* count of the pair, hence is at least the point count of every single
\* geometry of either series; it is computed before the record loop and is
\* the second dimension of every row of input_geoms and of intersection.
C4_MaxPointsSharedLength ==
    /\ MaxPointsComputed =>
          /\ \E r \in 1..N : max_points = CombinedPoints(r)
          /\ \A r \in 1..N : max_points >= CombinedPoints(r)
          /\ \A r \in 1..N : /\ max_points >= num_points_from_wkt(brt_wkt[r])
                             /\ max_points >= num_points_from_wkt(osm_wkt[r])
    /\ record_index >= 1 =>
          /\ MaxPointsComputed
          /\ Len(training_vectors) = N /\ Len(intersection_vectors) = N
          /\ \A r \in 1..N : /\ Len(training_vectors[r]) = max_points
                             /\ Len(intersection_vectors[r]) = max_points

\* C4 witness: the loop has processed a record whose own pair is shorter
\* than max_points.
C4_Witness ==
    /\ pc = "loop" /\ record_index = 2 /\ N = 2
    /\ CombinedPoints(1) < max_points

\* The degenerate placeholder sequence of length L.
Placeholder(L) == [p \in 1..L |-> IF p = 1 THEN FullStopVector ELSE ZeroVector]

\* Number of occurrences of r in a list.
Occurrences(list, r) == Cardinality({i \in DOMAIN list : list[i] = r})

\* C5: when an encoding of record r raises, both rows r become the
\* placeholder (FULL_STOP on vector 0, everything else zero), r is recorded
\* exactly once in broken_records and the loop moves on to the next record.
C5_BrokenRecordReplaced ==
    [][(pc = "loop" /\ record_index <= N /\ ~Parses(record_index))
          => /\ training_vectors'[record_index] = Placeholder(max_points)
             /\ intersection_vectors'[record_index] = Placeholder(max_points)
             /\ Occurrences(broken_records', record_index) = 1
             /\ pc' = "loop" /\ record_index' = record_index + 1]_vars

\* Some geometry column of some record does not parse.
SomeParseFailure ==
    \E r \in 1..N :
        \E c \in CentroidColumns \cup {"brt_wkt", "osm_wkt", "intersection_wkt"} :
            ~truncated_data[r][c].valid

\* C6: a parse failure in any geometry column drops no record and does not
\* abort the run: the archive, once written, holds N rows in each of its 8
\* arrays, and a run over data with a parse failure does not end in an
\* uncaught exception.
C6_ParseFailureKeepsEveryRow ==
    /\ archive.written =>
          \A a \in {"input_geoms", "intersection", "centroid_distance", "geom_distance",
                    "brt_centroid", "osm_centroid", "centroids", "centroids_rd"} :
              Len(archive[a]) = N
    /\ SomeParseFailure => pc # "crashed"

\* C7: the archive is written only after every record has been processed;
\* a run that ended in an exception has written no archive; after the
\* archive is written the arrays still equal what was saved.
C7_ArchiveOnlyAfterAllRecords ==
    /\ archive.written =>
          /\ pc = "done" /\ error = "none"
          /\ record_index = N + 1
          /\ \A r \in 1..N : \/ Occurrences(broken_records, r) = 1
                             \/ training_vectors[r] = training_vector(r)
          /\ archive = SavedArrays
    /\ pc = "crashed" => ~archive.written
    /\ pc # "done" => ~archive.written

\* C7 witness: an archive was written by a run that replaced a record by
\* the placeholder and encoded another.
C7_Witness ==
    /\ archive.written /\ N = 2
    /\ Len(broken_records) = 1

\* C9: for a record whose geometries parse, both encoded sequences have at
\* most max_points vectors; in particular the intersection geometry has at
\* most max_points points.
C9_CopyWithinBounds ==
    (pc = "loop" /\ record_index <= N /\ Parses(record_index))
        => /\ Len(training_vector(record_index)) <= max_points
           /\ Len(target_vector(record_index)) <= max_points
           /\ num_points_from_wkt(intersection_set[record_index]) <= max_points

\* The flag convention of a fixed-up centroid pair built from first, second.
CentroidPairOk(pair, first, second) ==
    /\ Len(pair) = 2
    /\ pair[1].STOP = 1 /\ pair[1].FULL_STOP = 0
    /\ pair[1].x = first[1].x /\ pair[1].y = first[1].y
    /\ pair[2] = second[1]
    /\ pair[2].FULL_STOP = 1
    /\ FullStopCount(pair) = 1

\* C10: after the fix-up, in every pair of centroids and of centroids_rd the
\* first centroid has STOP = 1 and FULL_STOP = 0 and the second keeps the
\* flags of vectorize_wkt(point, 1), so exactly one vector of the pair has
\* FULL_STOP; brt_centroid and osm_centroid (and the _rd lists) still hold
\* what vectorize_wkt(point, 1) returned.
C10_CentroidPairFlags ==
    /\ centroids # Unset =>
          \A r \in 1..N :
              /\ CentroidPairOk(centroids[r], brt_centroid[r], osm_centroid[r])
              /\ brt_centroid[r] = vectorize_wkt(truncated_data[r].brt_centroid, 1)
              /\ osm_centroid[r] = vectorize_wkt(truncated_data[r].osm_centroid, 1)
              /\ brt_centroid[r][1].FULL_STOP = 1
    /\ centroids_rd # Unset =>
          \A r \in 1..N :
              /\ CentroidPairOk(centroids_rd[r], brt_centroid_rd[r], osm_centroid_rd[r])
              /\ brt_centroid_rd[r] = vectorize_wkt(truncated_data[r].brt_centroid_rd, 1)
              /\ osm_centroid_rd[r] = vectorize_wkt(truncated_data[r].osm_centroid_rd, 1)
              /\ brt_centroid_rd[r][1].FULL_STOP = 1

\* C10 witness: both centroid pairs have been built and fixed up.
C10_Witness ==
    /\ pc = "distances"
    /\ centroids # Unset /\ centroids_rd # Unset

====
